---------------------------- MODULE Spec2Model ----------------------------
(***************************************************************************)
(* Verification model of nebari-dev/backup-restore (draft tree             *)
(* backup_restore/): the Keycloak service's dependency planner, its        *)
(* export / restore pipeline, and the Backup/Restore managers on top of    *)
(* the local storage client.                                               *)
(*                                                                         *)
(* Python strings that the code splits on "_" (method names, kind names)   *)
(* are modelled as sequences of their "_"-separated tokens, so that        *)
(* "export_identity_providers" is <<"export","identity","providers">> and  *)
(* str.split("_")[-1] is the last token.                                   *)
(***************************************************************************)
EXTENDS Naturals, Sequences, FiniteSets, TLC

(***************************************************************************)
(* Bounds of the model.                                                    *)
(***************************************************************************)
\* total number of depends_on entries in a generated dependency declaration
MaxDeps == 2
\* number of entities that live in the realm
MaxEntities == 2
\* number of manager calls (backup / restore) in one behaviour
MaxOps == 2
\* number of list endpoints of the provider that fail during one export pass
MaxFailures == 1
MaxCalls == 2

(***************************************************************************)
(* Kinds: the fields of KeycloakSkeleton, in declaration order.            *)
(***************************************************************************)
clients == <<"clients">>
users == <<"users">>
groups == <<"groups">>
roles == <<"roles">>
identity_providers == <<"identity", "providers">>

\* a name that no field of the schema carries
unregistered == <<"unregistered">>

\* State._initialize_schemas_and_dependencies: keys of state.schemas in
\* insertion order (model_fields order, skipping schemas/dependencies/id)
KeycloakSchemas == <<clients, users, groups, roles, identity_providers>>

\* State._initialize_schemas_and_dependencies applied to KeycloakSkeleton:
\* depends_on of every field (default [])
KeycloakDependencies ==
    [k \in {clients, users, groups, roles, identity_providers} |->
        CASE k = users -> <<groups>>
          [] k = roles -> <<clients>>
          [] OTHER -> <<>>]

Range(s) == {s[i] : i \in 1..Len(s)}

Kinds == Range(KeycloakSchemas)

Names == Kinds \cup {unregistered}

VARIABLES
    schemas,          \* state.schemas keys, insertion order
    dependencies,     \* state.dependencies: kind -> depends_on list
    planner_pc,       \* "ready" | "done"
    planner_out,      \* what _build_reconciliation_sequence returned / raised
    realm,            \* the provider's live realm: kind -> list of wire entities
    files,            \* storage backend: [bucket, file] -> artifact content
    manifests,        \* storage backend root: snapshot_id -> <id>_metadata.json
    uuid_count,       \* number of uuid4() values drawn by generate_snapshot_id
    op,               \* the manager call in progress
    ret,              \* what the last finished manager call returned / raised
    posts,            \* POSTs received by the provider's creation endpoints
    backups,          \* history: one record per backup call
    ops,              \* number of manager calls started
    local,            \* the files and directories the calls left on the local disk
    differ,           \* one call of _calculate_diff: its arguments and result
    importer,         \* one call of KeycloakImport._import_data
    token,            \* KeycloakAPIClient.token: 0 is None, n the n-th token issued
    calls,            \* the get / post calls on one KeycloakAPIClient
    idp               \* the identity provider: the requests it received

planner_vars == <<schemas, dependencies, planner_pc, planner_out>>

main_vars == <<realm, files, manifests, uuid_count, op, ret, posts, backups, ops, local>>

aux_vars == <<differ, importer, token, calls, idp>>

vars == <<planner_vars, main_vars, aux_vars>>

(***************************************************************************)
(* KeycloakService._build_dependency_graph                                 *)
(* dependency_graph[dependency] = list of the obj_names that depend on it, *)
(* appended while iterating state.dependencies.items() in insertion order. *)
(***************************************************************************)
\* mutant of AppendEach: the edge is stored the wrong way round
\* (dependency_graph[obj_name].append(dependency))
AppendEachReversed(graph, obj_name, depends_on) ==
    [graph EXCEPT ![obj_name] = @ \o SelectSeq(depends_on, LAMBDA d : d \in Kinds)]

RECURSIVE AppendEach(_, _, _)
\* for dependency in depends_on: dependency_graph[dependency].append(obj_name)
AppendEach(graph, obj_name, depends_on) ==
    IF depends_on = <<>> THEN graph
    ELSE LET d == Head(depends_on)
         IN AppendEach([graph EXCEPT ![d] = Append(@, obj_name)],
                       obj_name, Tail(depends_on))

RECURSIVE BuildGraphFrom(_, _, _)
BuildGraphFrom(graph, order, deps) ==
    IF order = <<>> THEN graph
    ELSE BuildGraphFrom(AppendEach(graph, Head(order), deps[Head(order)]),
                        Tail(order), deps)

\* defaultdict(list): every name maps to [] until appended to
_build_dependency_graph(order, deps) ==
    BuildGraphFrom([n \in Names |-> <<>>], order, deps)

(***************************************************************************)
(* KeycloakService._topological_sort                                       *)
(***************************************************************************)
RECURSIVE CountIn(_, _)
CountIn(s, x) ==
    IF s = <<>> THEN 0
    ELSE (IF Head(s) = x THEN 1 ELSE 0) + CountIn(Tail(s), x)

RECURSIVE SumOver(_, _, _)
SumOver(S, graph, x) ==
    IF S = {} THEN 0
    ELSE LET n == CHOOSE m \in S : TRUE
         IN CountIn(graph[n], x) + SumOver(S \ {n}, graph, x)

\* in_degree = {key: 0 for key in schemas}; then += 1 for every entry of
\* every list of the graph
InDegree(order, graph) ==
    [k \in Range(order) |-> SumOver(Names, graph, k)]

\* mutant of SelectSeq0: the initial queue is filled in reverse registry order
SelectSeq0Reversed(order, in_degree) ==
    SelectSeq([i \in 1..Len(order) |-> order[Len(order) + 1 - i]],
              LAMBDA k : in_degree[k] = 0)

\* queue = deque([k for k in in_degree if in_degree[k] == 0])
SelectSeq0(order, in_degree) ==
    SelectSeq(order, LAMBDA k : in_degree[k] = 0)

RECURSIVE Release(_, _, _)
\* for dep in dependency_graph[current]:
\*     in_degree[dep] -= 1; if in_degree[dep] == 0: queue.append(dep)
\* returns <<in_degree, queue>>
Release(deps, in_degree, queue) ==
    IF deps = <<>> THEN <<in_degree, queue>>
    ELSE LET d == Head(deps)
             deg == [in_degree EXCEPT ![d] = @ - 1]
         IN Release(Tail(deps), deg,
                    IF deg[d] = 0 THEN Append(queue, d) ELSE queue)

RECURSIVE Kahn(_, _, _, _)
\* while queue: current = queue.popleft(); sorted_sequence.append(current)
Kahn(queue, sorted_sequence, in_degree, graph) ==
    IF queue = <<>> THEN sorted_sequence
    ELSE LET current == Head(queue)
             r == Release(graph[current], in_degree, Tail(queue))
         IN Kahn(r[2], Append(sorted_sequence, current), r[1], graph)

_topological_sort(graph, order) ==
    LET in_degree == InDegree(order, graph)
    IN Kahn(SelectSeq0(order, in_degree), <<>>, in_degree, graph)

(***************************************************************************)
(* KeycloakService._build_reconciliation_sequence                          *)
(* An outcome is a record: ok = TRUE with the method names in `value`, or  *)
(* ok = FALSE with the raised error.  `args` of an error are the values    *)
(* interpolated into its message; the code's message is a literal.         *)
(***************************************************************************)
CyclicDependencyError ==
    [type |-> "RuntimeError",
     text |-> "A cyclic dependency was detected in the import/export configuration.",
     args |-> <<>>]

NoError == [type |-> "", text |-> "", args |-> <<>>]

Prefixed(prefix, seq) == [i \in 1..Len(seq) |-> <<prefix>> \o seq[i]]

\* if len(sorted_sequence) != len(self.state.schemas): raise RuntimeError(...)
\* return [f"{prefix}_{name}" for name in sorted_sequence]
CheckedSequence(prefix, order, sorted_sequence) ==
    IF Len(sorted_sequence) # Len(order)
    THEN [ok |-> FALSE, value |-> <<>>, error |-> CyclicDependencyError]
    ELSE [ok |-> TRUE, value |-> Prefixed(prefix, sorted_sequence), error |-> NoError]

\* mutant of _build_reconciliation_sequence: the length check is missing
BuildSequenceUnchecked(prefix, order, deps) ==
    [ok |-> TRUE,
     value |-> Prefixed(prefix, _topological_sort(_build_dependency_graph(order, deps), order)),
     error |-> NoError]

_build_reconciliation_sequence(prefix, order, deps) ==
    CheckedSequence(prefix, order,
                    _topological_sort(_build_dependency_graph(order, deps), order))

(***************************************************************************)
(* Values.  A Python value that is either None or a list is the record     *)
(* [none, list]; a message is the record [text, kind] of its literal part  *)
(* and the kind spelled out in it.                                         *)
(***************************************************************************)
None == [none |-> TRUE, text |-> FALSE, list |-> <<>>]
\* a Python list
Some(l) == [none |-> FALSE, text |-> FALSE, list |-> l]
\* a str that holds the JSON text of a list
JsonText(l) == [none |-> FALSE, text |-> TRUE, list |-> l]

\* Python truthiness of such a value: `if data:`
Truthy(v) == ~v.none /\ v.list # <<>>

NoText == [text |-> "", kind |-> <<>>]

Last(s) == s[Len(s)]

(***************************************************************************)
(* The provider's realm.  The i-th entity of a kind, as the list endpoint  *)
(* returns it: the identity key, one content field, and the id the server  *)
(* assigned.                                                               *)
(***************************************************************************)
WireEntity(k, i) ==
    CASE k = clients -> [id |-> i, clientId |-> i, name |-> i]
      [] k = users -> [id |-> i, username |-> i, email |-> i, firstName |-> i]
      [] k = groups -> [id |-> i, name |-> i, path |-> i]
      [] k = roles -> [id |-> i, name |-> i, description |-> i]
      [] k = identity_providers ->
            [internalId |-> i, alias |-> i, displayName |-> i]

EmptyRealm == [k \in Kinds |-> <<>>]

RECURSIVE Realms(_)
\* every realm with at most n entities
Realms(n) ==
    IF n = 0 THEN {EmptyRealm}
    ELSE LET prev == Realms(n - 1)
         IN prev \cup {[r EXCEPT ![k] = Append(@, WireEntity(k, Len(@) + 1))] :
                          r \in prev, k \in Kinds}

(***************************************************************************)
(* The model_dump() of a validated ClientSchema, UserSchema, GroupSchema,   *)
(* RoleSchema, IdentityProviderSchema: fields the schema does not declare  *)
(* are dropped, aliased fields are dumped under the field name.            *)
(***************************************************************************)
ClientSchema(item) == [client_id |-> item.clientId, name |-> item.name]
UserSchema(item) ==
    [username |-> item.username, email |-> item.email, firstName |-> item.firstName]
GroupSchema(item) == [id |-> item.id, name |-> item.name, path |-> item.path]
RoleSchema(item) ==
    [id |-> item.id, name |-> item.name, description |-> item.description]
IdentityProviderSchema(item) ==
    [alias |-> item.alias, displayName |-> item.displayName]

\* the schema that export_<k> / import_<k> passes to _export_data / _import_data
SchemaOf(k, item) ==
    CASE k = clients -> ClientSchema(item)
      [] k = users -> UserSchema(item)
      [] k = groups -> GroupSchema(item)
      [] k = roles -> RoleSchema(item)
      [] k = identity_providers -> IdentityProviderSchema(item)

(***************************************************************************)
(* ResponseModel and KeycloakExport                                        *)
(***************************************************************************)
ResponseModel(message, result, error, status) ==
    [message |-> message, result |-> result, error |-> error, status |-> status]

\* the methods export_clients ... export_identity_providers
ExporterMethods == {<<"export">> \o k : k \in Kinds}

\* the methods import_clients ... import_identity_providers
ImporterMethods == {<<"import">> \o k : k \in Kinds}

\* mutant of KeycloakExport_export_data: an empty result is an error
\* (`if not result: raise HTTPException(status_code=500, ...)`)
ExportEmptyIsError(k, live, failing) ==
    IF k \in failing \/ live[k] = <<>>
    THEN ResponseModel(NoText, None,
                       [text |-> "Failed to export: Unknown Error", kind |-> k], 500)
    ELSE ResponseModel([text |-> "Export completed successfully", kind |-> k],
                       Some([i \in 1..Len(live[k]) |-> SchemaOf(k, live[k][i])]),
                       NoText, 200)

\* KeycloakExport._export_data as called by export_<k>: `live` is the realm,
\* `failing` the kinds whose GET raises.  api_client.get wraps every failure
\* in RuntimeError, so the handler taken is `except Exception`.
KeycloakExport_export_data(k, live, failing) ==
    IF k \in failing
    THEN ResponseModel(NoText, None,
                       [text |-> "Failed to export: Unknown Error", kind |-> k], 500)
    ELSE ResponseModel([text |-> "Export completed successfully", kind |-> k],
                       Some([i \in 1..Len(live[k]) |-> SchemaOf(k, live[k][i])]),
                       NoText, 200)

\* getattr(self.exporter, method_name)()
CallExporter(method_name, live, failing) ==
    KeycloakExport_export_data(Tail(method_name), live, failing)

(***************************************************************************)
(* KeycloakService._generate_export_data: the list of the pairs it yields. *)
(* object_name = method_name.split("_")[-1].  With raw the yielded data is *)
(* data.get("result", []), which is None for a failed export.  A yielded   *)
(* pair is the record [name, data].                                        *)
(***************************************************************************)
\* the body of the loop: what is yielded for one method name
ExportYield(raw, method_name, live, failing) ==
    [name |-> <<Last(method_name)>>,
     data |-> IF raw THEN CallExporter(method_name, live, failing).result
              ELSE CallExporter(method_name, live, failing)]

\* for method_name in self._export_sequence: ...
ExportEach(raw, _export_sequence, live, failing) ==
    IF ~_export_sequence.ok
    THEN [ok |-> FALSE, value |-> <<>>, error |-> _export_sequence.error]
    ELSE [ok |-> TRUE,
          value |-> [i \in 1..Len(_export_sequence.value) |->
                       ExportYield(raw, _export_sequence.value[i], live, failing)],
          error |-> NoError]

_generate_export_data(raw, order, deps, live, failing) ==
    ExportEach(raw, _build_reconciliation_sequence("export", order, deps), live, failing)

(***************************************************************************)
(* KeycloakService._export_data: one file "<object_name>.json" per yielded *)
(* pair in the temporary directory (a later pair of the same name          *)
(* overwrites the file).  A file name is the list of its "."-separated     *)
(* parts.  A directory is a function from file names to contents.          *)
(***************************************************************************)
EmptyDir == [f \in {} |-> None]

JsonFile(object_name) == <<object_name, <<"json">>>>

WriteFile(dir, file, data) ==
    [f \in DOMAIN dir \cup {file} |-> IF f = file THEN data ELSE dir[f]]

RECURSIVE DumpAll(_, _)
DumpAll(dir, yielded) ==
    IF yielded = <<>> THEN dir
    ELSE DumpAll(WriteFile(dir, JsonFile(Head(yielded).name), Head(yielded).data),
                 Tail(yielded))

\* for object_name, data in <generator>: self._dump_to_file(...)
DumpYielded(gen) ==
    IF ~gen.ok THEN [ok |-> FALSE, value |-> EmptyDir, error |-> gen.error]
    ELSE [ok |-> TRUE, value |-> DumpAll(EmptyDir, gen.value), error |-> NoError]

KeycloakService_export_data(order, deps, live, failing) ==
    DumpYielded(_generate_export_data(FALSE, order, deps, live, failing))

(***************************************************************************)
(* KeycloakService._load_exported_data: file.split(".")[0] -> "result" of  *)
(* the file's JSON.                                                        *)
(***************************************************************************)
_load_exported_data(dir) ==
    [key \in {f[1] : f \in DOMAIN dir} |->
        LET file == CHOOSE f \in DOMAIN dir : f[1] = key
        IN dir[file].result]

(***************************************************************************)
(* KeycloakAPIClient.get and KeycloakAPIClient.post once _authenticate has *)
(* returned: one request to the endpoint, then raise_for_status and the    *)
(* two except clauses.  A status is the status code of the response; 0     *)
(* stands for no response at all (httpx.RequestError).                     *)
(***************************************************************************)
Statuses == {0, 200, 401, 403, 409, 500}

\* auth["realm"], with the default of the configuration schema
AuthRealm == "master"

\* response.raise_for_status() does not raise
IsSuccess(status) == status \in 200..299

\* mutant of Respond: a 403 is reported like any other status
RespondWithoutRealm(method, status) ==
    IF IsSuccess(status) THEN [ok |-> TRUE, error |-> NoError]
    ELSE [ok |-> FALSE,
          error |-> [type |-> "RuntimeError", text |-> "request failed",
                     args |-> <<method>>]]

\* what get / post does with the response to its request: return, or
\* RuntimeError(f"{method} request to {endpoint} failed with 403 Forbidden: The
\* current client may not have sufficient permissions over the realm '{realm}'.
\* Please check the corresponding service account roles."), or
\* RuntimeError(f"{method} request to {endpoint} failed: {e}")
Respond(method, status) ==
    IF IsSuccess(status) THEN [ok |-> TRUE, error |-> NoError]
    ELSE IF status = 403
    THEN [ok |-> FALSE,
          error |-> [type |-> "RuntimeError",
                     text |-> "request failed with 403 Forbidden: check the service account roles over the realm",
                     args |-> <<method, AuthRealm>>]]
    ELSE [ok |-> FALSE,
          error |-> [type |-> "RuntimeError", text |-> "request failed",
                     args |-> <<method>>]]

(***************************************************************************)
(* KeycloakImport._import_data as called by import_<k>(data).              *)
(* json.loads(data) raises TypeError unless data is a str; the handler     *)
(* taken is then `except Exception`.  answers[i] is the provider's answer  *)
(* to the i-th POST.  Returns the response and the POSTs sent to the       *)
(* creation endpoint of k, in list order: the loop ends with the first     *)
(* POST for which api_client.post raises, and the RuntimeError is handled  *)
(* by `except Exception`.                                                  *)
(***************************************************************************)
KeycloakImport_import_data(k, data, answers) ==
    LET refused == {i \in 1..Len(data.list) : ~Respond("POST", answers[i]).ok}
        stop == IF refused = {} THEN 0
                ELSE CHOOSE i \in refused : \A j \in refused : i <= j
    IN IF ~data.text \/ stop # 0
       THEN [response |-> ResponseModel(NoText, None,
                             [text |-> "Failed to import: Unknown Error", kind |-> k], 500),
             posts |-> IF ~data.text THEN <<>>
                       ELSE [i \in 1..stop |->
                               [kind |-> k, json |-> data.list[i], status |-> answers[i]]]]
       ELSE [response |-> ResponseModel([text |-> "Import completed successfully", kind |-> k],
                                        None, NoText, 200),
             posts |-> [i \in 1..Len(data.list) |->
                          [kind |-> k, json |-> data.list[i], status |-> answers[i]]]]

\* the provider's answers to the POSTs of a kind, given the kinds whose
\* creation endpoint fails
AnswersTo(k, data, failing) ==
    [i \in 1..Len(data.list) |-> IF k \in failing THEN 500 ELSE 200]

(***************************************************************************)
(* KeycloakService._generate_restore_data: the pairs it yields.  The first *)
(* component of a pair is the METHOD name of the import sequence; the data *)
(* is looked up under method_name.split("import_")[-1].                    *)
(***************************************************************************)
\* s.split("import_")[-1]
SplitImportLast(s) ==
    LET at == {i \in 1..(Len(s) - 1) : s[i] = "import"}
    IN IF at = {} THEN s
       ELSE SubSeq(s, (CHOOSE i \in at : \A j \in at : j <= i) + 1, Len(s))

\* backup_data.get(object_name, [])
GetOrEmpty(backup_data, object_name) ==
    IF object_name \in DOMAIN backup_data THEN backup_data[object_name] ELSE Some(<<>>)

\* for method_name in restore_sequence: ... yield method_name, data
RestoreEach(backup_data, restore_sequence) ==
    IF ~restore_sequence.ok
    THEN [ok |-> FALSE, value |-> <<>>, error |-> restore_sequence.error]
    ELSE [ok |-> TRUE,
          value |-> [i \in 1..Len(restore_sequence.value) |->
                       [name |-> restore_sequence.value[i],
                        data |-> GetOrEmpty(backup_data,
                                     SplitImportLast(restore_sequence.value[i]))]],
          error |-> NoError]

_generate_restore_data(backup_data, order, deps) ==
    RestoreEach(backup_data, _build_reconciliation_sequence("import", order, deps))

(***************************************************************************)
(* KeycloakService._restore_data: for every yielded pair with truthy data, *)
(* look up the importer method "import_" + <first component> and call it.  *)
(* Returns the POSTs of the importer calls, in order.                      *)
(***************************************************************************)
\* one iteration of the loop of _restore_data
RestoreOne(object_name, data, failing) ==
    LET method_name == <<"import">> \o object_name
    IN IF Truthy(data) /\ method_name \in ImporterMethods
       THEN KeycloakImport_import_data(Tail(method_name), data,
                                       AnswersTo(Tail(method_name), data, failing)).posts
       ELSE <<>>

RECURSIVE RestoreAll(_, _)
RestoreAll(yielded, failing) ==
    IF yielded = <<>> THEN <<>>
    ELSE RestoreOne(Head(yielded).name, Head(yielded).data, failing)
            \o RestoreAll(Tail(yielded), failing)

\* for object_name, data in <generator>: ...
RestoreYielded(gen, failing) ==
    IF ~gen.ok THEN [ok |-> FALSE, posts |-> <<>>, error |-> gen.error]
    ELSE [ok |-> TRUE, posts |-> RestoreAll(gen.value, failing), error |-> NoError]

\* failing: the kinds whose creation endpoint answers 500
_restore_data(backup_data, order, deps, failing) ==
    RestoreYielded(_generate_restore_data(backup_data, order, deps), failing)

(***************************************************************************)
(* The Differ: _handle_conflict and the per-kind handlers, _is_in_backup,  *)
(* _calculate_diff.                                                        *)
(***************************************************************************)
\* the index of the first element of current_data whose field `key` is
\* `value`, or 0
FirstMatch(current_data, key, value) ==
    IF \E i \in 1..Len(current_data) : current_data[i][key] = value
    THEN CHOOSE i \in 1..Len(current_data) :
            /\ current_data[i][key] = value
            /\ \A j \in 1..(i - 1) : current_data[j][key] # value
    ELSE 0

_handle_client_conflict(item, current_data) ==
    LET i == FirstMatch(current_data, "client_id", item.client_id)
    IN IF i = 0 THEN "add"
       ELSE IF item = current_data[i] THEN "skip" ELSE "update"

\* mutant of _handle_user_conflict: without the email rule
UserConflictWithoutEmailRule(item, current_data) ==
    LET i == FirstMatch(current_data, "username", item.username)
    IN IF i = 0 THEN "add"
       ELSE IF item = current_data[i] THEN "skip" ELSE "update"

_handle_user_conflict(item, current_data) ==
    LET i == FirstMatch(current_data, "username", item.username)
    IN IF i = 0 THEN "add"
       ELSE IF item = current_data[i] THEN "skip"
       ELSE IF item.email = current_data[i].email THEN "skip"
       ELSE "update"

_handle_group_conflict(item, current_data) ==
    LET i == FirstMatch(current_data, "name", item.name)
    IN IF i = 0 THEN "add"
       ELSE IF item = current_data[i] THEN "skip" ELSE "update"

_handle_role_conflict(item, current_data) ==
    LET i == FirstMatch(current_data, "name", item.name)
    IN IF i = 0 THEN "add"
       ELSE IF item = current_data[i] THEN "skip" ELSE "update"

_handle_identity_provider_conflict(item, current_data) ==
    LET i == FirstMatch(current_data, "alias", item.alias)
    IN IF i = 0 THEN "add"
       ELSE IF item = current_data[i] THEN "skip" ELSE "update"

_handle_conflict(object_name, item, current_data) ==
    CASE object_name = clients -> _handle_client_conflict(item, current_data)
      [] object_name = users -> _handle_user_conflict(item, current_data)
      [] object_name = groups -> _handle_group_conflict(item, current_data)
      [] object_name = roles -> _handle_role_conflict(item, current_data)
      [] object_name = identity_providers ->
            _handle_identity_provider_conflict(item, current_data)
      [] OTHER -> "add"

_is_in_backup(item, backup_data, object_name) ==
    \E i \in 1..Len(backup_data) :
        _handle_conflict(object_name, backup_data[i], <<item>>) = "skip"

_calculate_diff(object_name, current_data, backup_data) ==
    [added |-> SelectSeq(backup_data,
                  LAMBDA item : _handle_conflict(object_name, item, current_data) = "add"),
     removed |-> SelectSeq(current_data,
                  LAMBDA item : ~_is_in_backup(item, backup_data, object_name))]

(***************************************************************************)
(* KeycloakService._generate_restore_plan.  current_data is the generator  *)
(* _generate_export_data(raw=True): its items are the pairs it yields.     *)
(* Iterating a None backup list raises TypeError.                          *)
(***************************************************************************)
TypeError == [type |-> "TypeError", text |-> "object is not iterable", args |-> <<>>]

\* `not diff` for the dict that _calculate_diff returns
Falsy(diff) == DOMAIN diff = {}

\* plan[object_name] for the diff that _calculate_diff returned
DescribeDiff(diff) ==
    IF Falsy(diff)
    THEN [diff |-> diff, action |-> "No changes will be performed."]
    ELSE [diff |-> diff,
          action |-> "Conflicting information present. Will apply changes as specified."]

PlanEntry(object_name, data, current_data) ==
    DescribeDiff(_calculate_diff(object_name, current_data, data.list))

\* for object_name, data in <generator>: ... plan[object_name] = ...
PlanYielded(gen, current) ==
    IF ~gen.ok THEN [ok |-> FALSE, value |-> <<>>, error |-> gen.error]
    ELSE IF \E i \in 1..Len(gen.value) : gen.value[i].data.none
    THEN [ok |-> FALSE, value |-> <<>>, error |-> TypeError]
    ELSE IF ~current.ok THEN [ok |-> FALSE, value |-> <<>>, error |-> current.error]
    ELSE [ok |-> TRUE,
          value |-> [i \in 1..Len(gen.value) |->
                       [name |-> gen.value[i].name,
                        entry |-> PlanEntry(gen.value[i].name, gen.value[i].data,
                                            current.value)]],
          error |-> NoError]

_generate_restore_plan(backup_data, order, deps, live, failing) ==
    PlanYielded(_generate_restore_data(backup_data, order, deps),
                _generate_export_data(TRUE, order, deps, live, failing))

(***************************************************************************)
(* Identifiers.  generate_snapshot_id is str(uuid.uuid4()) (hyphenated),   *)
(* State._generate_id is uuid.uuid4().hex: two different formats, so a     *)
(* snapshot id never equals a state id.  uuid4 values are fresh.           *)
(***************************************************************************)
NoId == [kind |-> "none", n |-> 0]
Uuid(n) == [kind |-> "uuid", n |-> n]
Hex(n) == [kind |-> "hex", n |-> n]

\* KeycloakService.state = KeycloakSkeleton(): a class attribute, built once
\* when the module is imported; State.__init__ sets its id
StateId == Hex(0)

\* Manager._load_services: the loaded services, by name
Services == <<"keycloak">>

ServiceNames == Range(Services)

\* a service name no loaded service carries
UnknownService == "unknown"

\* BackupManager._generate_service_snapshot_metadata for KeycloakService
_generate_service_snapshot_metadata(service) ==
    [name |-> service, type |-> "Serial", version |-> "1.0", priority |-> 10,
     data |-> StateId]

\* BackupManager._generate_snapshot_metadata
_generate_snapshot_metadata(version, snapshot_id, created_at, services) ==
    [backup_and_restore_version |-> version,
     snapshot_id |-> snapshot_id,
     description |-> "Backup of all services",
     created_at |-> created_at,
     services |-> [svc \in Range(services) |-> _generate_service_snapshot_metadata(svc)]]

\* metadata = {}
NoMetadata ==
    [backup_and_restore_version |-> "", snapshot_id |-> NoId, description |-> "",
     created_at |-> 0, services |-> [svc \in {} |-> NoId]]

(***************************************************************************)
(* LocalClient: a bucket is a directory below base_dir.                    *)
(***************************************************************************)
\* bucket_name = service.name, or f"{<id>}/{service.name}"
Bucket(id, service) == [id |-> id, service |-> service]

Path(bucket, file) == [bucket |-> bucket, file |-> file]

\* LocalClient.upload(bucket_name, dir=...): shutil.copytree(dir, bucket_path,
\* dirs_exist_ok=True)
LocalClient_upload(store, bucket, dir) ==
    LET new == {Path(bucket, f) : f \in DOMAIN dir}
    IN [p \in DOMAIN store \cup new |-> IF p \in new THEN dir[p.file] ELSE store[p]]

BucketExists(store, bucket) == \E p \in DOMAIN store : p.bucket = bucket

\* LocalClient.download(bucket_name, dir): shutil.copytree(bucket_path, dir)
LocalClient_download(store, bucket) ==
    [f \in {p.file : p \in {q \in DOMAIN store : q.bucket = bucket}} |->
        store[Path(bucket, f)]]

\* LocalClient.upload(bucket_name="", data=..., file_name="<id>_metadata.json")
UploadManifest(store, metadata) ==
    [i \in DOMAIN store \cup {metadata.snapshot_id} |->
        IF i = metadata.snapshot_id THEN metadata ELSE store[i]]

(***************************************************************************)
(* Errors raised by the managers and the service                           *)
(***************************************************************************)
ServiceNotFound == [type |-> "ValueError", text |-> "Service not found.", args |-> <<>>]
NoSnapshotGiven ==
    [type |-> "ValueError", text |-> "Either snapshot or snapshot_id must be provided.",
     args |-> <<>>]
NoServiceMetadata ==
    [type |-> "ValueError", text |-> "No metadata found for service in snapshot.",
     args |-> <<>>]
ValidationError == [type |-> "ValidationError", text |-> "", args |-> <<>>]
FileNotFound == [type |-> "FileNotFoundError", text |-> "", args |-> <<>>]
BackupFailed == [type |-> "RuntimeError", text |-> "Backup failed", args |-> <<>>]
RestoreFailed == [type |-> "RuntimeError", text |-> "Restore failed", args |-> <<>>]
StorageError == [type |-> "OSError", text |-> "", args |-> <<>>]

(***************************************************************************)
(* KeycloakService.backup and KeycloakService.restore as functions of the  *)
(* storage, the realm and the provider's failures.                         *)
(***************************************************************************)
\* KeycloakService.backup: [ok, store (the storage afterwards), value (the
\* returned data), error, left (what the call leaves on the local disk)].
\* upload_ok: the storage client did not raise.
\* TemporaryDirectory creates temp_dir and removes it with its content when
\* the with block is left; _create_tar_archive writes temp_dir + ".tar.gz"
\* next to it: shutil.make_archive(temp_dir, "gztar", temp_dir)
LeftOnDisk(tar, exported) ==
    ({"temp_dir"} \cup (IF tar /\ exported.ok THEN {"temp_dir.tar.gz"} ELSE {}))
        \ {"temp_dir"}

\* the rest of KeycloakService.backup once self._export_data(temp_dir) is done;
\* LocalClient.upload(bucket_name, dir=temp_dir, tar=tar) without file_name
\* copies the directory whatever tar is
\* mutant of UploadOrLoad: the exported directory is uploaded also when
\* archive_only is false
UploadAndLoad(store, bucket, archive_only, exported, upload_ok, tar) ==
    IF ~exported.ok \/ (archive_only /\ ~upload_ok)
    THEN [ok |-> FALSE, store |-> store, value |-> EmptyDir, error |-> BackupFailed,
          left |-> LeftOnDisk(tar, exported)]
    ELSE [ok |-> TRUE, store |-> LocalClient_upload(store, bucket, exported.value),
          value |-> IF archive_only THEN EmptyDir
                    ELSE _load_exported_data(exported.value),
          error |-> NoError, left |-> LeftOnDisk(tar, exported)]

UploadOrLoad(store, bucket, archive_only, exported, upload_ok, tar) ==
    IF ~exported.ok \/ (archive_only /\ ~upload_ok)
    THEN [ok |-> FALSE, store |-> store, value |-> EmptyDir, error |-> BackupFailed,
          left |-> LeftOnDisk(tar, exported)]
    ELSE IF archive_only
    THEN [ok |-> TRUE, store |-> LocalClient_upload(store, bucket, exported.value),
          value |-> EmptyDir, error |-> NoError, left |-> LeftOnDisk(tar, exported)]
    ELSE [ok |-> TRUE, store |-> store,
          value |-> _load_exported_data(exported.value), error |-> NoError,
          left |-> LeftOnDisk(tar, exported)]

KeycloakService_backup(store, bucket, archive_only, order, deps, live, failing, upload_ok, tar) ==
    UploadOrLoad(store, bucket, archive_only,
                 KeycloakService_export_data(order, deps, live, failing), upload_ok, tar)

NoPlan == <<>>

\* return self._generate_restore_plan(backup_data), or RuntimeError
PlanResult(plan) ==
    IF plan.ok
    THEN [ok |-> TRUE, value |-> plan.value, posts |-> <<>>, error |-> NoError]
    ELSE [ok |-> FALSE, value |-> NoPlan, posts |-> <<>>, error |-> RestoreFailed]

\* self._restore_data(backup_data), or RuntimeError
ImportResult(done) ==
    IF done.ok
    THEN [ok |-> TRUE, value |-> NoPlan, posts |-> done.posts, error |-> NoError]
    ELSE [ok |-> FALSE, value |-> NoPlan, posts |-> <<>>, error |-> RestoreFailed]

\* the rest of KeycloakService.restore once the backup data is loaded
PlanOrImport(backup_data, dry_run, order, deps, live, failing) ==
    IF dry_run
    THEN PlanResult(_generate_restore_plan(backup_data, order, deps, live, failing))
    ELSE ImportResult(_restore_data(backup_data, order, deps, failing))

\* mutant of KeycloakService_restore: with dry_run the clients of the backup
\* data are imported as well
RestoreApplyingPlan(store, bucket, dry_run, order, deps, live, failing) ==
    IF ~BucketExists(store, bucket)
    THEN [ok |-> FALSE, value |-> NoPlan, posts |-> <<>>, error |-> RestoreFailed]
    ELSE LET backup_data == _load_exported_data(LocalClient_download(store, bucket))
         IN [PlanOrImport(backup_data, dry_run, order, deps, live, failing) EXCEPT
               !.posts = IF dry_run /\ clients \in DOMAIN backup_data
                         THEN KeycloakImport_import_data(
                                  clients, JsonText(backup_data[clients].list),
                                  AnswersTo(clients, backup_data[clients], {})).posts
                         ELSE @]

\* KeycloakService.restore: [ok, value (the plan, for dry_run), posts (the
\* POSTs sent to the provider), error]
KeycloakService_restore(store, bucket, dry_run, order, deps, live, failing) ==
    IF ~BucketExists(store, bucket)
    THEN [ok |-> FALSE, value |-> NoPlan, posts |-> <<>>, error |-> RestoreFailed]
    ELSE PlanOrImport(_load_exported_data(LocalClient_download(store, bucket)),
                      dry_run, order, deps, live, failing)

(***************************************************************************)
(* Planner specification: the planner applied to every dependency          *)
(* declaration with at most MaxDeps depends_on entries over the five kinds *)
(* (entries may repeat, may name the kind itself or an unregistered name). *)
(***************************************************************************)
NoDeps == [k \in Kinds |-> <<>>]

RECURSIVE Decls(_)
Decls(n) ==
    IF n = 0 THEN {NoDeps}
    ELSE LET prev == Decls(n - 1)
         IN prev \cup {[d EXCEPT ![k] = Append(@, m)] :
                          d \in prev, k \in Kinds, m \in Names}

NotPlanned == [ok |-> FALSE, value |-> <<>>, error |-> NoError]

\* no call of _calculate_diff was made
NoDiffer ==
    [pc |-> "idle", object_name |-> <<>>, backup_data |-> <<>>, current_data |-> <<>>,
     diff |-> [added |-> <<>>, removed |-> <<>>],
     swapped |-> [added |-> <<>>, removed |-> <<>>]]

\* no call of KeycloakImport._import_data was made
NoImporter ==
    [pc |-> "idle", kind |-> <<>>, data |-> None, answers |-> <<>>,
     response |-> ResponseModel(NoText, None, NoText, 200), posts |-> <<>>]

\* a KeycloakAPIClient after __init__ on which no call was made, and an
\* identity provider that received no request
ClientIdle ==
    /\ token = 0
    /\ calls = <<>>
    /\ idp = [token_requests |-> 0, introspections |-> 0, issued |-> 0]

AuxIdle == differ = NoDiffer /\ importer = NoImporter /\ ClientIdle

(***************************************************************************)
(* The managers.  `op` is the BackupManager.backup or                      *)
(* RestoreManager.restore call in progress; calls run one after the other. *)
(***************************************************************************)
NoFiles == [p \in {} |-> None]
NoManifests == [i \in {} |-> NoMetadata]
NoAcc == [svc \in {} |-> <<>>]

\* not_loaded: the service name of the call when it names no loaded service
IdleOp ==
    [name |-> "idle", pc |-> "idle", no |-> 0, todo |-> <<>>,
     snapshot |-> FALSE, archive_only |-> FALSE, plan |-> FALSE, by_id |-> FALSE,
     metadata |-> NoMetadata, acc |-> NoAcc, posts0 |-> 0, live0 |-> EmptyRealm,
     bucket |-> Bucket(NoId, ""), failing |-> {}, compressing |-> FALSE,
     snapshot_id |-> NoId, not_loaded |-> ""]

\* `call` is the finished call, `sent` the POSTs it caused, `live` and `store`
\* the realm and the artifacts when it finished
NoReturn ==
    [name |-> "none", no |-> 0, ok |-> FALSE, value |-> NoMetadata, error |-> NoError,
     call |-> IdleOp, sent |-> <<>>, live |-> EmptyRealm, store |-> NoFiles]

Return(call, value) ==
    [name |-> call.name, no |-> call.no, ok |-> TRUE, value |-> value,
     error |-> NoError, call |-> call,
     sent |-> SubSeq(posts, call.posts0 + 1, Len(posts)), live |-> realm,
     store |-> files]

Raise(call, error) ==
    [name |-> call.name, no |-> call.no, ok |-> FALSE, value |-> NoMetadata,
     error |-> error, call |-> call,
     sent |-> SubSeq(posts, call.posts0 + 1, Len(posts)), live |-> realm,
     store |-> files]

MainInit ==
    /\ realm \in Realms(MaxEntities)
    /\ files = NoFiles
    /\ manifests = NoManifests
    /\ uuid_count = 0
    /\ op = IdleOp
    /\ ret = NoReturn
    /\ posts = <<>>
    /\ backups = <<>>
    /\ ops = 0
    /\ local = {}

\* every subset of the kinds with at most MaxFailures elements
FailurePatterns == {F \in SUBSET Kinds : Cardinality(F) <= MaxFailures}

\* history record of a backup call
BackupRecord(no, snapshot, snapshot_id, selected) ==
    [no |-> no, snapshot |-> snapshot, snapshot_id |-> snapshot_id,
     selected |-> selected, uploaded |-> {}, written |-> {}, manifest |-> FALSE,
     outcome |-> "running"]

\* mutant of Selected: without a service name no service is selected
SelectedNone(service_name) ==
    IF service_name = "" THEN <<>> ELSE <<service_name>>

\* services_to_backup / services_to_restore for a service_name ("" is None)
Selected(service_name) ==
    IF service_name = "" THEN Services ELSE <<service_name>>

(***************************************************************************)
(* BackupManager.backup, up to the loop over the services: select the      *)
(* services, generate the snapshot metadata.  `valid`: the SnapshotMetadata*)
(* constructor accepted its arguments (it is handed a dict for a field     *)
(* declared as a list).                                                    *)
(***************************************************************************)
BackupCall ==
    \E service_name \in {"", UnknownService} \cup ServiceNames,
       snapshot \in BOOLEAN, compressing \in BOOLEAN, archive_only \in BOOLEAN,
       valid \in BOOLEAN :
        /\ op.name = "idle"
        /\ ops < MaxOps
        /\ ops' = ops + 1
        /\ LET call == [IdleOp EXCEPT !.name = "backup", !.no = ops + 1,
                                      !.not_loaded =
                                          IF service_name \in ServiceNames THEN ""
                                          ELSE service_name,
                                      !.snapshot = snapshot,
                                      !.compressing = compressing,
                                      !.archive_only = archive_only,
                                      !.posts0 = Len(posts), !.live0 = realm]
           IN IF service_name # "" /\ service_name \notin ServiceNames
              THEN /\ ret' = Raise(call, ServiceNotFound)
                   /\ UNCHANGED <<op, uuid_count, backups>>
              ELSE IF snapshot /\ ~valid
              THEN \* generate_snapshot_id ran before the constructor raised
                   /\ ret' = Raise(call, ValidationError)
                   /\ uuid_count' = uuid_count + 1
                   /\ UNCHANGED <<op, backups>>
              ELSE LET snapshot_id == IF snapshot THEN Uuid(uuid_count + 1) ELSE NoId
                       metadata ==
                           IF snapshot
                           THEN _generate_snapshot_metadata("1.0.0", snapshot_id, ops + 1,
                                                            Selected(service_name))
                           ELSE NoMetadata
                   IN /\ op' = [call EXCEPT !.pc = "services",
                                            !.todo = Selected(service_name),
                                            !.metadata = metadata]
                      /\ uuid_count' = IF snapshot THEN uuid_count + 1 ELSE uuid_count
                      /\ backups' = Append(backups,
                             BackupRecord(ops + 1, snapshot, snapshot_id,
                                          Range(Selected(service_name))))
                      /\ UNCHANGED ret
        /\ UNCHANGED <<realm, files, manifests, posts, local, planner_vars, aux_vars>>

\* the history record of the running backup, and the history with it replaced
Running == backups[Len(backups)]

Logged(b) == [backups EXCEPT ![Len(backups)] = b]

(***************************************************************************)
(* One iteration of the loop of BackupManager.backup: service.backup(...)  *)
(* for the next service, then the bookkeeping of its returned data.        *)
(***************************************************************************)
\* the bookkeeping of the loop body for what service.backup returned or raised
BackupServiceDone(svc, bucket_name, done, failing) ==
    IF ~done.ok
    THEN /\ local' = local \cup {[file |-> f, no |-> op.no, service |-> svc] : f \in done.left}
         /\ ret' = Raise(op, done.error)
         /\ op' = IdleOp
         /\ backups' = Logged([Running EXCEPT !.outcome = "raised"])
         /\ UNCHANGED files
    ELSE /\ local' = local \cup {[file |-> f, no |-> op.no, service |-> svc] : f \in done.left}
         /\ files' = done.store
         /\ op' = [op EXCEPT
              !.todo = Tail(@),
              !.failing = failing,
              !.metadata =
                  IF ~op.archive_only /\ op.snapshot
                  THEN [@ EXCEPT !.services[svc].data = done.value]
                  ELSE @,
              !.acc =
                  IF ~op.archive_only /\ ~op.snapshot
                  THEN [s \in DOMAIN @ \cup {svc} |->
                          IF s = svc
                          THEN (IF svc \in DOMAIN @ THEN @[svc] ELSE <<>>)
                                   \o <<done.value>>
                          ELSE @[s]]
                  ELSE @]
         /\ backups' = Logged(
              IF op.archive_only
              THEN [Running EXCEPT
                      !.uploaded = @ \cup {svc},
                      !.written = @ \cup
                          {p \in DOMAIN done.store : p.bucket = bucket_name}]
              ELSE Running)
         /\ UNCHANGED ret

\* bucket_name = service.name if not snapshot else f"{service.state.id}/{service.name}"
BackupBucket(svc) ==
    IF ~op.snapshot THEN Bucket(NoId, svc) ELSE Bucket(StateId, svc)

BackupService ==
    \E failing \in FailurePatterns, upload_ok \in BOOLEAN :
        /\ op.name = "backup" /\ op.pc = "services" /\ op.todo # <<>>
        /\ BackupServiceDone(
              Head(op.todo), BackupBucket(Head(op.todo)),
              KeycloakService_backup(files, BackupBucket(Head(op.todo)), op.archive_only,
                                     schemas, dependencies, realm, failing, upload_ok,
                                     op.compressing),
              failing)
        /\ UNCHANGED <<realm, manifests, uuid_count, posts, ops, planner_vars, aux_vars>>

(***************************************************************************)
(* After the loop, snapshot and archive_only: upload the manifest          *)
(* "<snapshot_id>_metadata.json" and return the snapshot id.               *)
(***************************************************************************)
UploadMetadata(after_loop) ==
    \E upload_ok \in BOOLEAN :
        /\ op.name = "backup" /\ op.pc = "services" /\ after_loop
        /\ op.snapshot /\ op.archive_only
        /\ IF upload_ok
           THEN /\ manifests' = UploadManifest(manifests, op.metadata)
                /\ ret' = Return(op, [message |-> "Backup completed successfully.",
                                      snapshot_id |-> op.metadata.snapshot_id,
                                      metadata_file |-> op.metadata.snapshot_id])
                /\ backups' = Logged([Running EXCEPT !.manifest = TRUE,
                                                          !.outcome = "returned"])
           ELSE /\ ret' = Raise(op, StorageError)
                /\ backups' = Logged([Running EXCEPT !.outcome = "raised"])
                /\ UNCHANGED manifests
        /\ op' = IdleOp
        /\ UNCHANGED <<realm, files, uuid_count, posts, ops, local, planner_vars, aux_vars>>

\* mutant of BackupManifest: the manifest is uploaded before the loop over
\* the services
BackupManifestFirst == UploadMetadata(op.todo # <<>>)

BackupManifest == UploadMetadata(op.todo = <<>>)

(***************************************************************************)
(* After the loop, otherwise: return the metadata (not archive_only) or    *)
(* fall off the end of the function.                                       *)
(***************************************************************************)
BackupReturn ==
    /\ op.name = "backup" /\ op.pc = "services" /\ op.todo = <<>>
    /\ ~(op.snapshot /\ op.archive_only)
    /\ ret' = Return(op, IF op.archive_only THEN NoMetadata
                         ELSE IF op.snapshot THEN op.metadata
                         ELSE op.acc)
    /\ backups' = Logged([Running EXCEPT !.outcome = "returned"])
    /\ op' = IdleOp
    /\ UNCHANGED <<realm, files, manifests, uuid_count, posts, ops, local, planner_vars, aux_vars>>

(***************************************************************************)
(* BackupManager.list, BackupManager.info and BackupManager.get: the body  *)
(* of each is `pass`, the call returns None whatever the storage holds.    *)
(***************************************************************************)
ListInfoGet ==
    \E method \in {"list", "info", "get"}, snapshot_id \in DOMAIN manifests \cup {NoId} :
        /\ op.name = "idle"
        /\ ops < MaxOps
        /\ method = "list" => snapshot_id = NoId
        /\ ops' = ops + 1
        /\ ret' = Return([IdleOp EXCEPT !.name = method, !.no = ops + 1,
                                        !.snapshot_id = snapshot_id,
                                        !.posts0 = Len(posts), !.live0 = realm],
                         None)
        /\ UNCHANGED <<realm, files, manifests, uuid_count, op, posts, backups, local, planner_vars, aux_vars>>

(***************************************************************************)
(* The provider's creation endpoints: a POST appends the entity to the     *)
(* realm and the server assigns its id.                                    *)
(***************************************************************************)
WireFromJson(k, json, n) ==
    CASE k = clients -> [id |-> n, clientId |-> json.client_id, name |-> json.name]
      [] k = users -> [id |-> n, username |-> json.username, email |-> json.email,
                       firstName |-> json.firstName]
      [] k = groups -> [id |-> n, name |-> json.name, path |-> json.path]
      [] k = roles -> [id |-> n, name |-> json.name, description |-> json.description]
      [] k = identity_providers ->
            [internalId |-> n, alias |-> json.alias, displayName |-> json.displayName]

RECURSIVE ProviderApply(_, _)
ProviderApply(live, sent) ==
    IF sent = <<>> THEN live
    ELSE LET k == Head(sent).kind
         IN ProviderApply(
                IF IsSuccess(Head(sent).status)
                THEN [live EXCEPT ![k] = Append(@, WireFromJson(k, Head(sent).json, Len(@) + 1))]
                ELSE live,
                Tail(sent))

(***************************************************************************)
(* RestoreManager.restore, up to the loop over the services.  The caller   *)
(* passes a SnapshotMetadata object, or a snapshot_id whose manifest is    *)
(* then read from the storage, or neither.                                 *)
(***************************************************************************)
\* a SnapshotMetadata the caller built for the loaded services
CallerSnapshot == _generate_snapshot_metadata("1.0.0", Uuid(0), 0, Services)

RestoreCall ==
    \E service_name \in {"", UnknownService} \cup ServiceNames,
       given \in {"none", "snapshot", "snapshot_id"},
       snapshot_id \in DOMAIN manifests \cup {Uuid(0)},
       plan \in BOOLEAN, valid \in BOOLEAN :
        /\ op.name = "idle"
        /\ ops < MaxOps
        /\ ops' = ops + 1
        /\ LET call == [IdleOp EXCEPT !.name = "restore", !.no = ops + 1,
                                      !.not_loaded =
                                          IF service_name \in ServiceNames THEN ""
                                          ELSE service_name,
                                      !.plan = plan,
                                      !.by_id = (given = "snapshot_id"),
                                      !.posts0 = Len(posts), !.live0 = realm]
           IN IF given = "none"
              THEN /\ ret' = Raise(call, NoSnapshotGiven)
                   /\ UNCHANGED op
              ELSE IF given = "snapshot_id" /\ snapshot_id \notin DOMAIN manifests
              THEN /\ ret' = Raise(call, FileNotFound)
                   /\ UNCHANGED op
              ELSE IF given = "snapshot_id" /\ ~valid
              THEN /\ ret' = Raise(call, ValidationError)
                   /\ UNCHANGED op
              ELSE IF service_name # "" /\ service_name \notin ServiceNames
              THEN /\ ret' = Raise(call, ServiceNotFound)
                   /\ UNCHANGED op
              ELSE /\ op' = [call EXCEPT
                                !.pc = "services",
                                !.todo = Selected(service_name),
                                !.metadata = IF given = "snapshot_id"
                                             THEN manifests[snapshot_id]
                                             ELSE CallerSnapshot]
                   /\ UNCHANGED ret
        /\ UNCHANGED <<realm, files, manifests, uuid_count, posts, backups, local, planner_vars, aux_vars>>

(***************************************************************************)
(* One iteration of the loop of RestoreManager.restore: service.restore    *)
(* for the next service.  Its temporary directory is removed when the with *)
(* block is left, on return and on every exception alike.                  *)
(***************************************************************************)
\* the bookkeeping of the loop body for what service.restore returned or raised
\* (failing: the kinds whose endpoints failed during it)
RestoreServiceDone(svc, bucket_name, result, failing) ==
    IF svc \notin DOMAIN op.metadata.services
    THEN /\ ret' = Raise(op, NoServiceMetadata)
         /\ op' = IdleOp
         /\ UNCHANGED <<posts, realm>>
    ELSE IF ~result.ok
    THEN /\ ret' = Raise([op EXCEPT !.bucket = bucket_name], result.error)
         /\ op' = IdleOp
         /\ UNCHANGED <<posts, realm>>
    ELSE /\ posts' = posts \o result.posts
         /\ realm' = ProviderApply(realm, result.posts)
         /\ op' = [op EXCEPT
              !.todo = Tail(@),
              !.bucket = bucket_name,
              !.failing = @ \cup failing,
              !.acc = IF op.plan
                      THEN [s \in DOMAIN @ \cup {svc} |->
                              IF s = svc THEN result.value ELSE @[s]]
                      ELSE @]
         /\ UNCHANGED ret

\* bucket_name = service.name if snapshot_id is None
\*               else f"{snapshot.snapshot_id}/{service.name}"
RestoreBucket(svc) ==
    IF ~op.by_id THEN Bucket(NoId, svc) ELSE Bucket(op.metadata.snapshot_id, svc)

RestoreService ==
    \E failing \in FailurePatterns :
        /\ op.name = "restore" /\ op.pc = "services" /\ op.todo # <<>>
        /\ RestoreServiceDone(
              Head(op.todo), RestoreBucket(Head(op.todo)),
              KeycloakService_restore(files, RestoreBucket(Head(op.todo)), op.plan,
                                      schemas, dependencies, realm, failing),
              failing)
        /\ UNCHANGED <<files, manifests, uuid_count, backups, ops, local, planner_vars, aux_vars>>

\* after the loop: return the plan, or the completion message
RestoreReturn ==
    /\ op.name = "restore" /\ op.pc = "services" /\ op.todo = <<>>
    /\ ret' = Return(op, IF op.plan
                         THEN [message |-> "Restore plan generated successfully.",
                               plan |-> op.acc]
                         ELSE [message |-> "Restore completed successfully.",
                               plan |-> NoAcc])
    /\ op' = IdleOp
    /\ UNCHANGED <<realm, files, manifests, uuid_count, posts, backups, ops, local, planner_vars, aux_vars>>

\* between two calls the realm is emptied (the next call targets an empty realm)
RealmEmptied ==
    /\ op.name = "idle"
    /\ realm # EmptyRealm
    /\ realm' = EmptyRealm
    /\ UNCHANGED <<files, manifests, uuid_count, op, ret, posts, backups, ops, local, planner_vars, aux_vars>>

Init ==
    /\ MainInit
    /\ schemas = KeycloakSchemas
    /\ dependencies = KeycloakDependencies
    /\ planner_pc = "ready"
    /\ planner_out = NotPlanned
    /\ AuxIdle

Next ==
    \/ BackupCall
    \/ BackupService
    \/ BackupManifest
    \/ BackupReturn
    \/ ListInfoGet
    \/ RestoreCall
    \/ RestoreService
    \/ RestoreReturn
    \/ RealmEmptied

Spec == Init /\ [][Next]_vars

(***************************************************************************)
(* Planner specification: the planner applied to every dependency          *)
(* declaration with at most MaxDeps depends_on entries over the five kinds *)
(* (entries may repeat, may name the kind itself or an unregistered name). *)
(***************************************************************************)
PlannerInit ==
    /\ schemas = KeycloakSchemas
    /\ dependencies \in Decls(MaxDeps)
    /\ planner_pc = "ready"
    /\ planner_out = NotPlanned
    /\ realm = EmptyRealm
    /\ files = NoFiles
    /\ manifests = NoManifests
    /\ uuid_count = 0
    /\ op = IdleOp
    /\ ret = NoReturn
    /\ posts = <<>>
    /\ backups = <<>>
    /\ ops = 0
    /\ local = {}
    /\ AuxIdle

\* one call of _build_reconciliation_sequence("export" | "import")
BuildSequence(prefix) ==
    /\ planner_pc = "ready"
    /\ planner_out' = _build_reconciliation_sequence(prefix, schemas, dependencies)
    /\ planner_pc' = "done"
    /\ UNCHANGED <<schemas, dependencies, main_vars, aux_vars>>

BuildExportSequence == BuildSequence("export")
BuildImportSequence == BuildSequence("import")

PlannerNext == BuildExportSequence \/ BuildImportSequence

SpecPlanner == PlannerInit /\ [][PlannerNext]_vars

(***************************************************************************)
(* Differ specification: _calculate_diff applied to every kind and every   *)
(* pair of entity lists (the backup's and the current one) of at most      *)
(* MaxEntities entities each.  Within one list the identity keys are       *)
(* distinct, as the provider guarantees.                                   *)
(***************************************************************************)
Identities == {"alice", "bob", "carol"}

Contents == {"a@x", "a@y"}

\* the model_dump() of an entity of kind k: identity key i, content c, and a
\* second field d (the server's id for groups and roles, firstName for users)
DumpedEntity(k, i, c, d) ==
    CASE k = clients -> [client_id |-> i, name |-> c]
      [] k = users -> [username |-> i, email |-> c, firstName |-> d]
      [] k = groups -> [id |-> d, name |-> i, path |-> c]
      [] k = roles -> [id |-> d, name |-> i, description |-> c]
      [] k = identity_providers -> [alias |-> i, displayName |-> c]

DumpedEntities(k) ==
    {DumpedEntity(k, i, c, d) : i \in Identities, c \in Contents, d \in Contents}

\* the key that _handle_<kind>_conflict compares
IdentityKey(k) ==
    CASE k = clients -> "client_id"
      [] k = users -> "username"
      [] k = groups -> "name"
      [] k = roles -> "name"
      [] k = identity_providers -> "alias"

RECURSIVE EntityLists(_, _)
\* the lists of at most n entities of kind k with distinct identity keys
EntityLists(k, n) ==
    IF n = 0 THEN {<<>>}
    ELSE LET prev == EntityLists(k, n - 1)
         IN prev \cup
            {Append(p[1], p[2]) :
                p \in {q \in prev \X DumpedEntities(k) :
                         \A j \in 1..Len(q[1]) :
                            q[1][j][IdentityKey(k)] # q[2][IdentityKey(k)]}}

DifferInit ==
    /\ schemas = KeycloakSchemas
    /\ dependencies = KeycloakDependencies
    /\ planner_pc = "ready"
    /\ planner_out = NotPlanned
    /\ realm = EmptyRealm
    /\ files = NoFiles
    /\ manifests = NoManifests
    /\ uuid_count = 0
    /\ op = IdleOp
    /\ ret = NoReturn
    /\ posts = <<>>
    /\ backups = <<>>
    /\ ops = 0
    /\ local = {}
    /\ \E k \in Kinds :
          \E backup_data \in EntityLists(k, MaxEntities) :
             \E current_data \in EntityLists(k, MaxEntities) :
                differ = [NoDiffer EXCEPT !.pc = "ready", !.object_name = k,
                                          !.backup_data = backup_data,
                                          !.current_data = current_data]
    /\ importer = NoImporter
    /\ ClientIdle

\* one call _calculate_diff(object_name, current_data, backup_data), and the
\* call with the two lists exchanged
CalculateDiff ==
    /\ differ.pc = "ready"
    /\ differ' = [differ EXCEPT
          !.pc = "done",
          !.diff = _calculate_diff(differ.object_name, differ.current_data,
                                   differ.backup_data),
          !.swapped = _calculate_diff(differ.object_name, differ.backup_data,
                                      differ.current_data)]
    /\ UNCHANGED <<planner_vars, main_vars, importer, token, calls, idp>>

DifferNext == CalculateDiff

SpecDiffer == DifferInit /\ [][DifferNext]_vars

(***************************************************************************)
(* Importer specification: one call of import_<k>(data) for every kind,    *)
(* every list of at most MaxEntities entities, handed over as a list or as *)
(* its JSON text, and every answer of the provider to each POST.  The      *)
(* token request of the client is taken to succeed.                        *)
(***************************************************************************)
\* nothing but the planner's registrations exists: no manager call was made
CoreIdle ==
    /\ schemas = KeycloakSchemas
    /\ dependencies = KeycloakDependencies
    /\ planner_pc = "ready"
    /\ planner_out = NotPlanned
    /\ realm = EmptyRealm
    /\ files = NoFiles
    /\ manifests = NoManifests
    /\ uuid_count = 0
    /\ op = IdleOp
    /\ ret = NoReturn
    /\ posts = <<>>
    /\ backups = <<>>
    /\ ops = 0
    /\ local = {}

ImportInit ==
    /\ CoreIdle
    /\ differ = NoDiffer
    /\ ClientIdle
    /\ \E k \in Kinds, as_text \in BOOLEAN :
          \E list \in EntityLists(k, MaxEntities) :
             \E answers \in [1..Len(list) -> Statuses] :
                importer = [NoImporter EXCEPT
                               !.pc = "ready", !.kind = k,
                               !.data = IF as_text THEN JsonText(list) ELSE Some(list),
                               !.answers = answers]

\* one call import_<kind>(data): what it returned and the POSTs it sent
ImportData ==
    /\ importer.pc = "ready"
    /\ LET done == KeycloakImport_import_data(importer.kind, importer.data,
                                              importer.answers)
       IN importer' = [importer EXCEPT !.pc = "done", !.response = done.response,
                                       !.posts = done.posts]
    /\ UNCHANGED <<planner_vars, main_vars, differ, token, calls, idp>>

ImportNext == ImportData

SpecImport == ImportInit /\ [][ImportNext]_vars

(***************************************************************************)
(* Client specification: at most MaxCalls calls of get / post running      *)
(* concurrently (as coroutines of one event loop) on one KeycloakAPIClient *)
(* that has a cached token or none.  A step is the code a coroutine runs   *)
(* between two awaits; the identity provider and the realm                 *)
(* endpoint answer every request in every possible way.  A call records    *)
(* the token sent with each of its requests (bearers) and the status of    *)
(* each answer (answers).                                                  *)
(***************************************************************************)
ClientInit ==
    /\ CoreIdle
    /\ differ = NoDiffer
    /\ importer = NoImporter
    /\ token \in {0, 1}
    /\ idp = [token_requests |-> token, introspections |-> 0, issued |-> token]
    /\ \E n \in 1..MaxCalls :
          calls \in [1..n -> {[pc |-> "start", method |-> m, bearers |-> <<>>,
                               answers |-> <<>>, error |-> NoError,
                               confirmed |-> 0] :
                                  m \in {"GET", "POST"}}]

\* await self._authenticate(), up to its first request:
\* `if self.token and await self._is_token_valid()` sends the introspection
\* request when a token is cached, otherwise the token request is sent
Authenticate(i) ==
    /\ calls[i].pc = "start"
    /\ IF token # 0
       THEN /\ idp' = [idp EXCEPT !.introspections = @ + 1]
            /\ calls' = [calls EXCEPT ![i].pc = "introspecting",
                                      ![i].confirmed = token]
       ELSE /\ idp' = [idp EXCEPT !.token_requests = @ + 1]
            /\ calls' = [calls EXCEPT ![i].pc = "authenticating"]
    /\ UNCHANGED <<planner_vars, main_vars, differ, importer, token>>

\* the answer to the introspection request: active (_authenticate
\* returns), not active (the token request is sent), an error
\* status (raise_for_status: the HTTPStatusError is not caught), or no
\* response (RuntimeError)
Introspected(i) ==
    /\ calls[i].pc = "introspecting"
    /\ \E answer \in {"active", "inactive", "status", "none"} :
          CASE answer = "active" ->
                 /\ calls' = [calls EXCEPT ![i].pc = "authenticated"]
                 /\ UNCHANGED idp
            [] answer = "inactive" ->
                 /\ calls' = [calls EXCEPT ![i].pc = "authenticating",
                                           ![i].confirmed = 0]
                 /\ idp' = [idp EXCEPT !.token_requests = @ + 1]
            [] answer = "status" ->
                 /\ calls' = [calls EXCEPT
                        ![i].pc = "raised",
                        ![i].error = [type |-> "HTTPStatusError", text |-> "",
                                      args |-> <<>>]]
                 /\ UNCHANGED idp
            [] answer = "none" ->
                 /\ calls' = [calls EXCEPT
                        ![i].pc = "raised",
                        ![i].error = [type |-> "RuntimeError",
                                      text |-> "Token introspection failed",
                                      args |-> <<>>]]
                 /\ UNCHANGED idp
    /\ UNCHANGED <<planner_vars, main_vars, differ, importer, token>>

\* the answer to the token request: a token (self.token is set and
\* _authenticate returns), an error status (the HTTPStatusError is
\* not caught), or no response (RuntimeError)
TokenIssued(i) ==
    /\ calls[i].pc = "authenticating"
    /\ \E answer \in {"token", "status", "none"} :
          CASE answer = "token" ->
                 /\ idp' = [idp EXCEPT !.issued = @ + 1]
                 /\ token' = idp.issued + 1
                 /\ calls' = [calls EXCEPT ![i].pc = "authenticated",
                                           ![i].confirmed = idp.issued + 1]
            [] answer = "status" ->
                 /\ calls' = [calls EXCEPT
                        ![i].pc = "raised",
                        ![i].error = [type |-> "HTTPStatusError", text |-> "",
                                      args |-> <<>>]]
                 /\ UNCHANGED <<idp, token>>
            [] answer = "none" ->
                 /\ calls' = [calls EXCEPT
                        ![i].pc = "raised",
                        ![i].error = [type |-> "RuntimeError",
                                      text |-> "Failed to authenticate with Keycloak",
                                      args |-> <<>>]]
                 /\ UNCHANGED <<idp, token>>
    /\ UNCHANGED <<planner_vars, main_vars, differ, importer>>

\* after _authenticate has returned the request is sent with the token that
\* self.token holds by then (the http clients are closed and opened with
\* awaits in between)
Request(i) ==
    /\ calls[i].pc = "authenticated"
    /\ calls' = [calls EXCEPT ![i].pc = "requesting", ![i].bearers = Append(@, token)]
    /\ UNCHANGED <<planner_vars, main_vars, differ, importer, token, idp>>

\* the answer to the call's request: the call returns or raises
Responded(i) ==
    /\ calls[i].pc = "requesting"
    /\ \E status \in Statuses :
          calls' = [calls EXCEPT
             ![i].pc = IF Respond(calls[i].method, status).ok THEN "returned" ELSE "raised",
             ![i].answers = Append(@, status),
             ![i].error = Respond(calls[i].method, status).error]
    /\ UNCHANGED <<planner_vars, main_vars, differ, importer, token, idp>>

ClientNext ==
    \E i \in DOMAIN calls :
        \/ Authenticate(i)
        \/ Introspected(i)
        \/ TokenIssued(i)
        \/ Request(i)
        \/ Responded(i)

SpecClient == ClientInit /\ [][ClientNext]_vars

(***************************************************************************)
(* Properties of the planner                                               *)
(***************************************************************************)
\* k reaches itself through depends_on edges among registered kinds
RECURSIVE ReachFrom(_, _, _)
ReachFrom(S, deps, n) ==
    IF n = 0 THEN S
    ELSE ReachFrom(S \cup UNION {Range(deps[k]) \cap Kinds : k \in S \cap Kinds},
                   deps, n - 1)

DependsTransitively(deps, k) ==
    ReachFrom(Range(deps[k]) \cap Kinds, deps, Cardinality(Kinds))

Cyclic(deps) == \E k \in Kinds : k \in DependsTransitively(deps, k)

OverRegistered(deps) == \A k \in Kinds : Range(deps[k]) \subseteq Kinds

Position(seq, x) == CHOOSE i \in 1..Len(seq) : seq[i] = x

\* the kinds of a returned sequence, prefix removed
PlannedKinds(out) == [i \in 1..Len(out.value) |-> Tail(out.value[i])]

\* C1: for every acyclic dependency declaration over the registered kinds the
\* planner returns a sequence that contains every registered kind exactly
\* once and places every kind after all the kinds of its depends_on.
C1_TopologicalOrder ==
    (planner_pc = "done" /\ OverRegistered(dependencies) /\ ~Cyclic(dependencies))
    => /\ planner_out.ok
       /\ Len(planner_out.value) = Cardinality(Kinds)
       /\ Range(PlannedKinds(planner_out)) = Kinds
       /\ \A k \in Kinds : \A d \in Range(dependencies[k]) :
              Position(PlannedKinds(planner_out), d)
                  < Position(PlannedKinds(planner_out), k)

\* the Keycloak declaration was planned: clients before roles, groups before
\* users
C1_Witness ==
    /\ planner_pc = "done"
    /\ dependencies = KeycloakDependencies
    /\ planner_out.ok
    /\ Position(PlannedKinds(planner_out), clients)
           < Position(PlannedKinds(planner_out), roles)
    /\ Position(PlannedKinds(planner_out), groups)
           < Position(PlannedKinds(planner_out), users)

\* the kinds that _topological_sort did not emit
Unprocessed(order, deps) ==
    Kinds \ Range(_topological_sort(_build_dependency_graph(order, deps), order))

IdentityOf(k, e) == e[IdentityKey(k)]

IdentitiesIn(k, list) == {IdentityOf(k, list[i]) : i \in 1..Len(list)}

\* C11: the plan's add set is exactly the snapshot entities whose identity is
\* absent from the live list, its remove set is exactly the live entities
\* whose identity is absent from the snapshot; an entity whose identity is
\* present on both sides is never reported as add or remove.
C11_DiffByIdentity ==
    differ.pc = "done"
    => /\ Range(differ.diff.added)
            = {e \in Range(differ.backup_data) :
                 IdentityOf(differ.object_name, e)
                    \notin IdentitiesIn(differ.object_name, differ.current_data)}
       /\ Range(differ.diff.removed)
            = {e \in Range(differ.current_data) :
                 IdentityOf(differ.object_name, e)
                    \notin IdentitiesIn(differ.object_name, differ.backup_data)}

\* a snapshot entity and a live entity share the identity key and the kind's
\* equality rule fails
NeedsUpdate(k, item, current_item) ==
    /\ IdentityOf(k, item) = IdentityOf(k, current_item)
    /\ _handle_conflict(k, item, <<current_item>>) = "update"

\* the keys whose values differ between two dumps of the same kind
DifferingKeys(item, current_item) ==
    {key \in DOMAIN item : item[key] # current_item[key]}

\* C12: when a snapshot entity and a live entity share the identity key but
\* the kind's equality rule fails, the diff contains an update action for
\* that entity that carries the set of keys whose values differ.
C12_UpdateCarriesFieldDiff ==
    differ.pc = "done"
    => \A i \in 1..Len(differ.backup_data) : \A j \in 1..Len(differ.current_data) :
          NeedsUpdate(differ.object_name, differ.backup_data[i], differ.current_data[j])
          => /\ "updated" \in DOMAIN differ.diff
             /\ \E u \in Range(differ.diff.updated) :
                   /\ u.item = differ.backup_data[i]
                   /\ u.fields = DifferingKeys(differ.backup_data[i],
                                               differ.current_data[j])

\* C13: diff symmetry of absence: the entities reported as added by
\* diff(snapshot = S, live = L) are, by identity key, the entities reported
\* as removed by diff(snapshot = L, live = S).
C13_AbsenceSymmetry ==
    differ.pc = "done"
    => IdentitiesIn(differ.object_name, differ.diff.added)
          = IdentitiesIn(differ.object_name, differ.swapped.removed)

(***************************************************************************)
(* Properties of backup and restore                                        *)
(***************************************************************************)
\* the artifact file that the exporter writes for kind k
ArtifactFile(k) == JsonFile(<<Last(<<"export">> \o k)>>)

\* a decoded entity without the fields the server assigns
WithoutServerFields(k, e) ==
    CASE k = groups -> [name |-> e.name, path |-> e.path]
      [] k = roles -> [name |-> e.name, description |-> e.description]
      [] OTHER -> e

Canonical(k, list) == [i \in 1..Len(list) |-> WithoutServerFields(k, list[i])]

\* the entity list of kind k in the exporter's output for a realm
Exported(live, k) == KeycloakExport_export_data(k, live, {}).result.list

\* a restore call that ran to its end with plan = FALSE / TRUE
Restored == ret.name = "restore" /\ ret.ok /\ ~ret.call.plan
Planned == ret.name = "restore" /\ ret.ok /\ ret.call.plan

\* the artifact of kind k in the bucket the finished restore read
SnapshotArtifact(k) == ret.store[Path(ret.call.bucket, ArtifactFile(k))]

\* every artifact of the snapshot that the finished restore read is a
\* successful export
SnapshotComplete == \A k \in Kinds : SnapshotArtifact(k).status = 200

\* C3: round trip.  Restoring (plan = FALSE) a snapshot that backup produced
\* into an empty realm yields a realm whose export equals the snapshot's
\* artifacts for every kind, modulo server-assigned fields.
C3_RoundTrip ==
    (Restored /\ ret.call.live0 = EmptyRealm /\ SnapshotComplete)
    => \A k \in Kinds :
          Canonical(k, Exported(ret.live, k))
              = Canonical(k, SnapshotArtifact(k).result.list)

\* the entries of the plan returned for a service
PlanEntries(svc) == ret.value.plan[svc]

\* C4: idempotence of restore.  When the live realm holds, for every kind,
\* exactly the entities of the snapshot, restore(plan = TRUE) returns a plan
\* with no add and no remove (and no update) action for any kind.
C4_IdempotentPlan ==
    (/\ Planned
     /\ SnapshotComplete
     /\ \A k \in Kinds : SnapshotArtifact(k).result.list = Exported(ret.live, k))
    => \A svc \in DOMAIN ret.value.plan : \A i \in 1..Len(PlanEntries(svc)) :
          /\ PlanEntries(svc)[i].entry.diff.added = <<>>
          /\ PlanEntries(svc)[i].entry.diff.removed = <<>>

C8_PlanHasNoSideEffects ==
    [][((op.name = "restore" /\ op.plan) \/ (op'.name = "restore" /\ op'.plan))
          => /\ posts' = posts
             /\ realm' = realm
             /\ files' = files
             /\ manifests' = manifests]_vars

\* a plan was returned that lists entities to add, and nothing was sent
C8_Witness ==
    /\ Planned
    /\ \E svc \in DOMAIN ret.value.plan : \E i \in 1..Len(PlanEntries(svc)) :
          PlanEntries(svc)[i].entry.diff.added # <<>>
    /\ ret.sent = <<>>
    /\ ret.store = files

\* the POSTs of the finished call that went to the creation endpoint of k
SentTo(k) == SelectSeq(ret.sent, LAMBDA post : post.kind = k)

\* C9: restore with plan = FALSE invokes the importer: for every kind whose
\* artifact holds a non-empty entity list, the import of that kind is called
\* with that list, one creation POST per entity.
C9_ImporterInvoked ==
    Restored
    => \A k \in Kinds :
          (SnapshotArtifact(k).status = 200 /\ SnapshotArtifact(k).result.list # <<>>)
          => /\ Len(SentTo(k)) = Len(SnapshotArtifact(k).result.list)
             /\ {SentTo(k)[i].json : i \in 1..Len(SentTo(k))}
                   = Range(SnapshotArtifact(k).result.list)

\* C10: during a restore the kinds are imported in planner order: when the
\* snapshot holds entities of a kind K and of a kind D of K.depends_on, the
\* POSTs of D all precede the POSTs of K, and the POSTs of one kind follow
\* the order of the artifact's entity list.
C10_ImportOrder ==
    (Restored /\ SnapshotComplete)
    => \A k \in Kinds :
          SnapshotArtifact(k).result.list # <<>>
          => /\ [i \in 1..Len(SentTo(k)) |-> SentTo(k)[i].json]
                   = SnapshotArtifact(k).result.list
             /\ \A d \in Range(dependencies[k]) :
                   SnapshotArtifact(d).result.list # <<>>
                   => \E i, j \in 1..Len(ret.sent) :
                         /\ ret.sent[i].kind = d
                         /\ ret.sent[j].kind = k
                         /\ \A a, b \in 1..Len(ret.sent) :
                               (ret.sent[a].kind = d /\ ret.sent[b].kind = k) => a < b

\* a snapshot backup that uploaded its artifacts and its manifest has returned
SnapshotReturned ==
    ret.name = "backup" /\ ret.ok /\ ret.call.snapshot /\ ret.call.archive_only

\* the artifact of kind k that the finished snapshot backup uploaded for svc
UploadedArtifact(svc, k) == ret.store[Path(Bucket(StateId, svc), ArtifactFile(k))]

\* the export of some kind failed during the finished snapshot backup
Degraded ==
    \E svc \in ServiceNames, k \in Kinds : UploadedArtifact(svc, k).status = 500

Imported == importer.pc = "done" /\ importer.data.text

\* the positions of the list whose POST the provider answers with 409
Conflicts ==
    {i \in 1..Len(importer.data.list) : importer.answers[i] = 409}

\* C15: when the provider answers 409 Conflict to the POST of an entity and
\* refuses no POST for another reason, the import is not fatal (its response
\* is not an error response), and every entity of the list is POSTed, in
\* list order, the entities after the conflict included.
C15_ConflictIsSoft ==
    (/\ Imported
     /\ Conflicts # {}
     /\ \A i \in 1..Len(importer.data.list) :
            i \in Conflicts \/ IsSuccess(importer.answers[i]))
    => /\ importer.response.status = 200
       /\ importer.response.error = NoText
       /\ Len(importer.posts) = Len(importer.data.list)
       /\ \A i \in 1..Len(importer.posts) :
             importer.posts[i].json = importer.data.list[i]


\* the kinds whose creation endpoint failed during the finished restore
FailedKinds == ret.call.failing

\* kind k depends, directly or transitively, on a kind whose import failed
DependsOnFailed(k) == DependsTransitively(dependencies, k) \cap FailedKinds # {}

\* the finished call reports kind k as skipped
ReportedSkipped(k) ==
    /\ "skipped" \in DOMAIN ret.value
    /\ k \in ret.value.skipped

\* C16: when a restore of a complete snapshot has returned and the creation
\* endpoint of a kind K answered 5xx, every kind that depends on K received
\* no POST and is reported skipped, and every other kind but K with entities
\* in the snapshot was imported (its entities were POSTed).
C16_DependentsSkipped ==
    (Restored /\ SnapshotComplete /\ FailedKinds # {})
    => \A k \in Kinds \ FailedKinds :
          IF DependsOnFailed(k)
          THEN SentTo(k) = <<>> /\ ReportedSkipped(k)
          ELSE SnapshotArtifact(k).result.list # <<>> => SentTo(k) # <<>>


(***************************************************************************)
(* Properties of the API client.                                           *)
(***************************************************************************)
\* call i has returned or raised
Finished(i) == calls[i].pc \in {"returned", "raised"}

\* C17: a call whose request was answered with 401 has, once it finished,
\* sent its request exactly twice (one retry), the second time with a token
\* other than the one that was refused (the token was invalidated and the
\* client authenticated again); the outcome of the call is that of the
\* second answer.
C17_RetryOnceOn401 ==
    \A i \in DOMAIN calls :
        (Finished(i) /\ calls[i].answers # <<>> /\ calls[i].answers[1] = 401)
        => /\ Len(calls[i].bearers) = 2
           /\ Len(calls[i].answers) = 2
           /\ calls[i].bearers[2] # calls[i].bearers[1]
           /\ (calls[i].pc = "returned") = IsSuccess(calls[i].answers[2])

\* C18: a call whose request was answered with 403 has raised an error that
\* reports the missing permission, names the realm and points at the
\* service account roles, and the call sent exactly one request (no retry).
C18_ForbiddenNotRetried ==
    \A i \in DOMAIN calls :
        403 \in Range(calls[i].answers)
        => /\ calls[i].pc = "raised"
           /\ calls[i].error.type = "RuntimeError"
           /\ calls[i].error.text
                 = "request failed with 403 Forbidden: check the service account roles over the realm"
           /\ AuthRealm \in Range(calls[i].error.args)
           /\ Len(calls[i].bearers) = 1
           /\ calls[i].answers = <<403>>

\* a POST and a GET were both answered with 403, after the client had to
\* fetch a token
C18_Witness ==
    /\ \E i \in DOMAIN calls :
          calls[i].method = "POST" /\ calls[i].answers = <<403>> /\ calls[i].pc = "raised"
    /\ \E i \in DOMAIN calls :
          calls[i].method = "GET" /\ calls[i].answers = <<403>> /\ calls[i].pc = "raised"
    /\ idp.token_requests > 0

\* C19: token refresh is single-flight.  Never are two token requests of
\* concurrent calls outstanding at the identity provider, and calls that
\* found no token cached when they started send their requests with one and
\* the same token.
C19_SingleFlight ==
    /\ Cardinality({i \in DOMAIN calls : calls[i].pc = "authenticating"}) <= 1
    /\ idp.introspections = 0
       => \A i, j \in DOMAIN calls :
             (calls[i].bearers # <<>> /\ calls[j].bearers # <<>>)
             => calls[i].bearers[1] = calls[j].bearers[1]


(***************************************************************************)
(* Properties of the local disk.                                           *)
(***************************************************************************)
\* C20: once a backup or restore call has returned or raised, nothing that
\* its services created outside the storage backend is left on the local
\* disk: no temporary directory and no tar archive.
C20_NothingLeftOnDisk ==
    ret.name \in {"backup", "restore"} => local = {}


(***************************************************************************)
(* Properties of the stored artifacts.                                     *)
(***************************************************************************)
\* the first manager call was a backup with compression to the storage, and
\* it returned
CompressedBackup ==
    /\ ret.name = "backup" /\ ret.ok /\ ret.no = 1
    /\ ret.call.compressing /\ ret.call.archive_only

\* the files in the bucket of service svc when the backup returned
StoredFor(svc) ==
    {p \in DOMAIN ret.store :
        p.bucket = Bucket(IF ret.call.snapshot THEN StateId ELSE NoId, svc)}

\* C21: after a backup with compression the bucket of every service holds
\* exactly one file, and that file is a .tar.gz archive.
C21_SingleTarBlob ==
    CompressedBackup
    => \A svc \in ServiceNames :
          /\ Cardinality(StoredFor(svc)) = 1
          /\ \A p \in StoredFor(svc) : p.file[2] = <<"tar", "gz">>


Selections == {Range(Selected(n)) : n \in ServiceNames \cup {""}}

\* C23, in every state: without a service name all loaded services are
\* selected and with the name of a loaded service that service alone; the
\* loop of a call runs over loaded services only and never for a call that
\* named a service that is not loaded; a backup uploads for selected
\* services only, and when its manifest is written it has uploaded for
\* every selected service and the manifest lists exactly the selected
\* services; a call that named a service that is not loaded has failed.
C23_Selected ==
    /\ Selected("") = Services
    /\ \A n \in ServiceNames : Selected(n) = <<n>>
    /\ op.name \in {"backup", "restore"}
       => op.not_loaded = "" /\ Range(op.todo) \in Selections \cup {{}}
    /\ \A i \in 1..Len(backups) :
          /\ backups[i].selected \in Selections
          /\ backups[i].uploaded \subseteq backups[i].selected
          /\ backups[i].manifest
             => /\ backups[i].uploaded = backups[i].selected
                /\ DOMAIN manifests[backups[i].snapshot_id].services
                      = backups[i].selected
    /\ ret.call.not_loaded # "" => ~ret.ok

Archived == ret.name = "backup" /\ ret.ok /\ ret.no = 1 /\ ret.call.archive_only

\* the directory a restore downloads from the bucket of service svc
Downloaded(svc) ==
    LocalClient_download(
        ret.store, Bucket(IF ret.call.snapshot THEN StateId ELSE NoId, svc))

\* the data that _generate_restore_data yields for kind k from directory dir
RestoreDataFor(dir, k) ==
    LET yielded == _generate_restore_data(_load_exported_data(dir), schemas,
                                          dependencies).value
    IN yielded[CHOOSE i \in 1..Len(yielded) : yielded[i].name = <<"import">> \o k].data

\* C24: after a backup the bucket of a service holds, for every kind K, the
\* artifact <K>.json and no other file, that artifact holds what the
\* exporter of K returned (when the export of K succeeded), and the data a
\* restore loads for K is the result of that artifact; this for every kind,
\* identity_providers included.
C24_OneArtifactPerKind ==
    Archived
    => \A svc \in ServiceNames :
          /\ DOMAIN Downloaded(svc) = {JsonFile(k) : k \in Kinds}
          /\ \A k \in Kinds :
                /\ Downloaded(svc)[JsonFile(k)].status = 200
                   => Downloaded(svc)[JsonFile(k)].result.list
                         = Exported(ret.call.live0, k)
                /\ RestoreDataFor(Downloaded(svc), k)
                      = Downloaded(svc)[JsonFile(k)].result


(***************************************************************************)
(* Further properties of the planner.                                      *)
(***************************************************************************)
\* the kinds in the order export and import process them for Keycloak
KeycloakOrder == <<clients, groups, identity_providers, roles, users>>

\* C25: the planner is deterministic.  When it returns a sequence, kinds
\* without dependencies appear in it in the order of the registry; the
\* sequence is the one that another run returns for export and for import
\* over the same descriptors (up to the prefix); and for the declaration of
\* Keycloak it is clients, groups, identity_providers, roles, users.
C25_Deterministic ==
    (planner_pc = "done" /\ planner_out.ok)
    => /\ \A i, j \in 1..Len(schemas) :
             (/\ i < j
              /\ dependencies[schemas[i]] = <<>>
              /\ dependencies[schemas[j]] = <<>>)
             => Position(PlannedKinds(planner_out), schemas[i])
                   < Position(PlannedKinds(planner_out), schemas[j])
       /\ \A prefix \in {"export", "import"} :
             _build_reconciliation_sequence(prefix, schemas, dependencies).value
                = Prefixed(prefix, PlannedKinds(planner_out))
       /\ dependencies = KeycloakDependencies
          => PlannedKinds(planner_out) = KeycloakOrder

\* the import sequence of the Keycloak declaration was built
C25_Witness ==
    /\ planner_pc = "done"
    /\ dependencies = KeycloakDependencies
    /\ planner_out.value = Prefixed("import", KeycloakOrder)

\* C29: when a kind declares a dependency on a name that is not a
\* registered kind the planner returns no sequence: it fails with the
\* cyclic-dependency error, whether or not the declaration has a cycle, and
\* with it the export and the restore of the service fail before any
\* exporter or importer method is called: nothing is written to the storage
\* and nothing is POSTed.
C29_UnregisteredDependency ==
    (planner_pc = "done" /\ ~OverRegistered(dependencies))
    => /\ ~planner_out.ok
       /\ planner_out.value = <<>>
       /\ planner_out.error = CyclicDependencyError
       /\ \A live \in Realms(1) :
             /\ ~_generate_export_data(FALSE, schemas, dependencies, live, {}).ok
             /\ ~KeycloakService_backup(NoFiles, Bucket(NoId, "keycloak"), TRUE, schemas,
                                        dependencies, live, {}, TRUE, FALSE).ok
             /\ KeycloakService_backup(NoFiles, Bucket(NoId, "keycloak"), TRUE, schemas,
                                       dependencies, live, {}, TRUE, FALSE).store = NoFiles
             /\ ~_restore_data([k \in Kinds |-> Some(Exported(live, k))], schemas,
                               dependencies, {}).ok
             /\ _restore_data([k \in Kinds |-> Some(Exported(live, k))], schemas,
                              dependencies, {}).posts = <<>>

\* users depends on a name that is not registered, nothing else is
\* declared (no cycle), and the planner failed
C29_Witness ==
    /\ planner_pc = "done"
    /\ dependencies = [NoDeps EXCEPT ![users] = <<unregistered>>]
    /\ ~Cyclic(dependencies)
    /\ planner_out.error = CyclicDependencyError


\* C26: every request of a call carries the token that the same call
\* acquired with the client-credentials grant or that the introspection
\* endpoint confirmed active to the same call (calls[i].confirmed: the token
\* sent with the call's introspection request, 0 once it was answered
\* inactive, then the token of the call's own token response)
C26_TokenOfTheCall ==
    \A i \in DOMAIN calls :
        \A n \in DOMAIN calls[i].bearers :
            /\ calls[i].confirmed # 0
            /\ calls[i].bearers[n] = calls[i].confirmed


(***************************************************************************)
(* Properties of the export of empty collections.                          *)
(***************************************************************************)
\* the kinds of which the realm held no entity when the backup was called
\* and whose GET was answered
EmptyKinds == {k \in Kinds : ret.call.live0[k] = <<>> /\ k \notin ret.call.failing}

\* the artifact of kind k in the bucket of service svc when the backup
\* returned
BackupArtifact(svc, k) ==
    ret.store[Path(Bucket(IF ret.call.snapshot THEN StateId ELSE NoId, svc),
                   ArtifactFile(k))]

\* C27: an export of a kind for which the provider returns an empty
\* collection is a success.  A backup to the storage whose uploads succeed
\* returns, whatever kinds are empty; its artifact of every empty kind has
\* result [], status 200 and no error; and the bucket holds one artifact
\* for each of the five kinds, so a backup of an empty realm yields five
\* artifacts with an empty result.
C27_EmptyExport ==
    Archived
    => \A svc \in ServiceNames :
          /\ Cardinality(StoredFor(svc)) = Cardinality(Kinds)
          /\ \A k \in Kinds :
                Path(Bucket(IF ret.call.snapshot THEN StateId ELSE NoId, svc),
                     ArtifactFile(k)) \in StoredFor(svc)
          /\ \A k \in EmptyKinds :
                /\ BackupArtifact(svc, k).result = Some(<<>>)
                /\ BackupArtifact(svc, k).status = 200
                /\ BackupArtifact(svc, k).error = NoText

\* a backup of the empty realm in which every GET was answered has returned
C27_Witness ==
    /\ Archived
    /\ ret.call.live0 = EmptyRealm
    /\ EmptyKinds = Kinds
    /\ \A svc \in ServiceNames, k \in Kinds :
           BackupArtifact(svc, k).result = Some(<<>>)


(***************************************************************************)
(* Properties of the conflict handlers.                                    *)
(***************************************************************************)
\* what _handle_conflict answers for the i-th entity of the backup list
\* against the current list of the finished diff
Classified(i) ==
    _handle_conflict(differ.object_name, differ.backup_data[i], differ.current_data)

\* the i-th backup entity and the j-th current entity have the same identity
\* key
SameIdentity(i, j) ==
    differ.backup_data[i][IdentityKey(differ.object_name)]
        = differ.current_data[j][IdentityKey(differ.object_name)]

\* C28: a snapshot user and a live user with the same username and the same
\* email are classified skip even when other fields differ (and the live
\* user is then neither added nor removed by the diff); they are classified
\* update exactly when the username matches, the entities are not equal and
\* the emails differ; for the other four kinds any content difference under
\* a matching identity key is update.
C28_UserEmailRule ==
    differ.pc = "done"
    => \A i \in 1..Len(differ.backup_data) : \A j \in 1..Len(differ.current_data) :
          SameIdentity(i, j)
          => IF differ.object_name = users
             THEN /\ differ.backup_data[i].email = differ.current_data[j].email
                     => /\ Classified(i) = "skip"
                        /\ differ.backup_data[i] \notin Range(differ.diff.added)
                        /\ differ.current_data[j] \notin Range(differ.diff.removed)
                  /\ Classified(i) = "update"
                     <=> /\ differ.backup_data[i] # differ.current_data[j]
                         /\ differ.backup_data[i].email # differ.current_data[j].email
             ELSE /\ differ.backup_data[i] # differ.current_data[j]
                     => Classified(i) = "update"
                  /\ differ.backup_data[i] = differ.current_data[j]
                     => Classified(i) = "skip"

\* a finished diff of users in which a snapshot user and a live user have
\* the same username and email and different first names
C28_Witness ==
    /\ differ.pc = "done"
    /\ differ.object_name = users
    /\ \E i \in 1..Len(differ.backup_data) : \E j \in 1..Len(differ.current_data) :
          /\ SameIdentity(i, j)
          /\ differ.backup_data[i].email = differ.current_data[j].email
          /\ differ.backup_data[i].firstName # differ.current_data[j].firstName
          /\ Classified(i) = "skip"


(***************************************************************************)
(* Properties of backup with archive_only = False.                         *)
(***************************************************************************)
\* the last manager call was a backup with archive_only = False, and it
\* returned
Loaded == ret.name = "backup" /\ ret.ok /\ ~ret.call.archive_only

\* the services that the backup call which returned last had selected
SelectedBy == (CHOOSE b \in Range(backups) : b.no = ret.no).selected

\* what service.backup returns to that call: the exported data of the realm
LoadedData(svc) ==
    KeycloakService_backup(ret.store, Bucket(NoId, svc), FALSE, schemas, dependencies,
                           ret.call.live0, ret.call.failing, TRUE,
                           ret.call.compressing).value

\* the value a backup with archive_only = False returns holds the exported
\* data of every selected service under the service's name
C30_DataByService ==
    Loaded
    => /\ SelectedBy # {}
       /\ \A svc \in SelectedBy :
             IF ret.call.snapshot
             THEN ret.value.services[svc].data = LoadedData(svc)
             ELSE ret.value[svc] = <<LoadedData(svc)>>

\* what a step may write to the storage
C30_Writes ==
    /\ (op.name = "backup" /\ ~op.archive_only) => UNCHANGED <<files, manifests>>
    /\ (files' # files) => (op.name = "backup" /\ op.archive_only)
    /\ (manifests' # manifests)
          => (op.name = "backup" /\ op.archive_only /\ op.snapshot)

\* C30: a backup called with archive_only = False writes nothing to the
\* storage (no artifact, no manifest) and returns the exported data of every
\* selected service keyed by service name; only a backup with
\* archive_only = True writes to the storage, and the manifest is written
\* only when snapshot = True as well.
C30_ArchiveOnlyFrame ==
    /\ []C30_DataByService
    /\ [][C30_Writes]_vars

\* a backup with archive_only = False of a realm that is not empty has
\* returned the data and the storage holds nothing
C30_Witness ==
    /\ Loaded
    /\ ret.no = 1
    /\ ret.call.live0 # EmptyRealm
    /\ \E svc \in SelectedBy : \E k \in DOMAIN LoadedData(svc) :
           LoadedData(svc)[k] # None /\ LoadedData(svc)[k] # Some(<<>>)
    /\ ret.store = NoFiles
    /\ manifests = NoManifests

=============================================================================
